---- MODULE Spec2Model ----
(***************************************************************************)
(* A model of the GitHub issue analyser: the paginated fetch of open       *)
(* issues (app/github_client.py), the SQLite issue cache                   *)
(* (app/database.py), the Groq analysis call (app/llm_client.py) and the   *)
(* two FastAPI handlers /scan and /analyze that tie them together          *)
(* (app/main.py, app/utils.py).                                            *)
(*                                                                         *)
(* Python strings that the code inspects character by character (the repo  *)
(* and the prompt of a request) are sequences of one-character strings.    *)
(* Python's None is the record field none |-> TRUE of a return value, or   *)
(* the string NoneValue where a field of a dict is None.                   *)
(***************************************************************************)
EXTENDS Integers, Sequences, FiniteSets, TLC

VARIABLES
    remote,   \* SpecFetch: what the GitHub API holds, page by page
    f,        \* SpecFetch: the locals of fetch_all_issues while it runs
    db,       \* Spec: the committed rows of the table issues
    replaced, \* Spec: history, the keys cache_issues has returned True for
    client,   \* Spec: llm_client.client is set (GROQ_API_KEY was present)
    resp,     \* Spec: the response of the handler that ran last, or Idle
    engine,   \* SpecEngine: one call of analyze_issues, its arguments and result
    procs     \* SpecWorkers: the requests in progress in the worker processes

vars == <<remote, f, db, replaced, client, resp, engine, procs>>

(***************************************************************************)
(* Bounds of the model.                                                    *)
(***************************************************************************)
\* the remote of SpecFetch answers with data on at most MaxPages pages
MaxPages == 4
\* a remote page of the handlers' specification holds at most MaxIssues records
MaxIssues == 2

(***************************************************************************)
(* github_client.py                                                        *)
(***************************************************************************)
\* per_page = 100, "GitHub's maximum per page"
per_page == 100

NoneValue == "None"

\* A remote record: the fields of a GitHub issue dict the program reads.
\* pull_request is TRUE when the dict has the key 'pull_request'.
Record(id, created_at, body, pr) ==
    [id |-> id, created_at |-> created_at, body |-> body, pull_request |-> pr]

\* What requests.get gives for one page: an HTTP response with a status code
\* and a JSON body, or one of the exceptions the function catches.
HttpResponse(status, body) ==
    [kind |-> "http", status |-> status, body |-> body, text |-> ""]

\* an answer whose body is not JSON: response.json() raises JSONDecodeError, a
\* RequestException (requests 2.27 and later), of this text
NotJson(status) ==
    [kind |-> "notjson", status |-> status, body |-> <<>>,
     text |-> "Expecting value: line 1 column 1 (char 0)"]

\* an answer whose body is a JSON list with an element that is neither an object
\* nor a string: the filter of the pull requests raises TypeError of this text
Unreadable(status) ==
    [kind |-> "unreadable", status |-> status, body |-> <<>>,
     text |-> "argument of type 'int' is not iterable"]

\* requests.get raises: Timeout, another RequestException, another exception
RaisedTimeout == [kind |-> "timeout", status |-> 0, body |-> <<>>, text |-> ""]

RaisedRequestException(text) ==
    [kind |-> "network", status |-> 0, body |-> <<>>, text |-> text]

RaisedException(text) ==
    [kind |-> "unexpected", status |-> 0, body |-> <<>>, text |-> text]

\* str(e) of the exceptions requests.get raises: one text without and one with
\* 'Not Found'
ExceptionTexts == {"boom", "Tunnel connection failed: 404 Not Found"}

\* f"Network error while fetching issues: {str(e)}"
NetworkError(text) ==
    CASE text = "boom" -> "Network error while fetching issues: boom"
      [] text = "Tunnel connection failed: 404 Not Found" ->
           "Network error while fetching issues: Tunnel connection failed: 404 Not Found"
      [] text = "Expecting value: line 1 column 1 (char 0)" ->
           "Network error while fetching issues: Expecting value: line 1 column 1 (char 0)"

\* f"Unexpected error: {str(e)}"
UnexpectedError(text) ==
    CASE text = "boom" -> "Unexpected error: boom"
      [] text = "Tunnel connection failed: 404 Not Found" ->
           "Unexpected error: Tunnel connection failed: 404 Not Found"
      [] text = "argument of type 'int' is not iterable" ->
           "Unexpected error: argument of type 'int' is not iterable"

\* An answer 200 whose body is a JSON object: the loop iterates over its keys,
\* and 'pull_request' not in key is a substring test. KeyItem is such a key as an
\* element of page_issues.
MentionsPullRequest(text) == text = "pull_request"

KeyItem(text) == [string |-> text, pull_request |-> MentionsPullRequest(text)]

\* the element is a string, not a dict
IsString(issue) == "string" \in DOMAIN issue

\* the failure dict every error path returns
FetchFailure(error) == [success |-> FALSE, issues |-> <<>>, error |-> error]

\* mutant: the pull requests are kept
keep_every_record(page_issues) == page_issues

\* mutant: a full page ends the pagination too
IsLastPageOrFull(page_issues) == Len(page_issues) <= per_page

\* [issue for issue in page_issues if 'pull_request' not in issue]
IsIssue(issue) == ~issue.pull_request

actual_issues(page_issues) == SelectSeq(page_issues, IsIssue)

\* mutant: the stop test counts the issues kept, not the records of the page
IsLastPageByKept(page_issues) == Len(actual_issues(page_issues)) < per_page

\* len(page_issues) < per_page: the page was the last one
\* mutant: only an empty page ends the loop
IsLastPageNever(page_issues) == FALSE

IsLastPage(page_issues) == Len(page_issues) < per_page

\* the locals of fetch_all_issues before the loop
FetchStart ==
    [page |-> 1, issues |-> <<>>, requests |-> <<>>, done |-> FALSE,
     result |-> FetchFailure(NoneValue)]

\* mutant: the failure dict carries the issues collected so far
FetchReturnPartial(st, result) ==
    [st EXCEPT !.done = TRUE, !.result = [result EXCEPT !.issues = st.issues]]

FetchReturn(st, result) == [st EXCEPT !.done = TRUE, !.result = result]

\* One iteration of `while True`: the request of page st.page was answered by
\* response. requests is the log of the page numbers asked for.
FetchStep(st, response) ==
    LET asked == [st EXCEPT !.requests = Append(@, st.page)] IN
    CASE response.kind = "timeout" -> FetchReturn(asked, FetchFailure("timed out"))
      [] response.kind = "network" ->
           FetchReturn(asked, FetchFailure(NetworkError(response.text)))
      [] response.kind = "unexpected" ->
           FetchReturn(asked, FetchFailure(UnexpectedError(response.text)))
      [] response.status = 403 -> FetchReturn(asked, FetchFailure("rate limit exceeded"))
      [] response.status = 404 -> FetchReturn(asked, FetchFailure("not found"))
      [] response.status # 200 -> FetchReturn(asked, FetchFailure("api error"))
      [] response.kind = "notjson" ->
           FetchReturn(asked, FetchFailure(NetworkError(response.text)))
      [] response.kind = "unreadable" ->
           FetchReturn(asked, FetchFailure(UnexpectedError(response.text)))
      [] OTHER ->
           LET page_issues == response.body
               issues == asked.issues \o actual_issues(page_issues)
               success == [success |-> TRUE, issues |-> issues, error |-> NoneValue]
           IN  IF page_issues = <<>>
               THEN FetchReturn(asked,
                        [success |-> TRUE, issues |-> asked.issues, error |-> NoneValue])
               ELSE IF IsLastPage(page_issues)
                    THEN FetchReturn([asked EXCEPT !.issues = issues], success)
                    ELSE [asked EXCEPT !.issues = issues, !.page = @ + 1]

(***************************************************************************)
(* The remote of SpecFetch, described page by page: sizes[p] is the number *)
(* of raw records of page p (a page past the description is empty), the    *)
(* records of the pages prPages that prPat selects are pull requests, and  *)
(* the request of page failPage is answered by the failure failKind, an     *)
(* exception among them carrying the text failText.                        *)
(***************************************************************************)
PageSizes == {0, 37, per_page - 1, per_page}

PrPatterns == {"first", "last", "all"}

FailKinds ==
    {"403", "404", "500", "timeout", "network", "unexpected", "notjson", "unreadable"}

\* the failures of a page request: a status, a timeout or a body that cannot be
\* read, or an exception of requests.get with its text
Failures ==
    [failPage : 1..MaxPages, failKind : FailKinds \ {"network", "unexpected"},
     failText : {""}]
    \cup [failPage : 1..MaxPages, failKind : {"network", "unexpected"},
          failText : ExceptionTexts]

\* the sequences over S of length at most n
SeqsUpTo(S, n) == UNION {[1..k -> S] : k \in 0..n}

NoFailure == [failPage |-> 0, failKind |-> "none", failText |-> ""]

NoPullRequests == [prPages |-> {}, prPat |-> "none"]

\* the pages with pull requests: one page, or every page
PrPages == {{p} : p \in 1..MaxPages} \cup {1..(MaxPages + 1)}

\* a failing remote is combined with no pull requests or with one on every page,
\* and is described up to its failing page: no request is made past it
Remotes ==
    {[sizes |-> s, prPages |-> pr.prPages, prPat |-> pr.prPat,
      failPage |-> fl.failPage, failKind |-> fl.failKind, failText |-> fl.failText] :
        s \in SeqsUpTo(PageSizes, MaxPages),
        pr \in {NoPullRequests} \cup
               [prPages : PrPages, prPat : PrPatterns],
        fl \in {NoFailure}}
    \cup
    UNION {{[sizes |-> s, prPages |-> pr.prPages, prPat |-> pr.prPat,
             failPage |-> fl.failPage, failKind |-> fl.failKind,
             failText |-> fl.failText] :
                s \in SeqsUpTo(PageSizes, fl.failPage - 1),
                pr \in {NoPullRequests,
                        [prPages |-> 1..(MaxPages + 1), prPat |-> "first"]}} :
           fl \in Failures}

PageSize(rem, p) == IF p <= Len(rem.sizes) THEN rem.sizes[p] ELSE 0

IsPullRequestAt(rem, p, i) ==
    /\ p \in rem.prPages
    /\ CASE rem.prPat = "first" -> i = 1
         [] rem.prPat = "last" -> i = PageSize(rem, p)
         [] OTHER -> TRUE

RecordAt(rem, p, i) ==
    Record((p - 1) * per_page + i, 1, "b", IsPullRequestAt(rem, p, i))

PageBody(rem, p) == [i \in 1..PageSize(rem, p) |-> RecordAt(rem, p, i)]

Respond(rem, p) ==
    IF p = rem.failPage
    THEN CASE rem.failKind = "timeout" -> RaisedTimeout
           [] rem.failKind = "network" -> RaisedRequestException(rem.failText)
           [] rem.failKind = "unexpected" -> RaisedException(rem.failText)
           [] rem.failKind = "notjson" -> NotJson(200)
           [] rem.failKind = "unreadable" -> Unreadable(200)
           [] rem.failKind = "403" -> HttpResponse(403, <<>>)
           [] rem.failKind = "404" -> HttpResponse(404, <<>>)
           [] OTHER -> HttpResponse(500, <<>>)
    ELSE HttpResponse(200, PageBody(rem, p))

\* fetch_all_issues against a remote given as the list of its answers, page by
\* page; a page past the list is an empty page
ResponseOf(pages, p) == IF p <= Len(pages) THEN pages[p] ELSE HttpResponse(200, <<>>)

RECURSIVE FetchLoop(_, _)
FetchLoop(st, pages) ==
    IF st.done THEN st ELSE FetchLoop(FetchStep(st, ResponseOf(pages, st.page)), pages)

fetch_all_issues(pages) == FetchLoop(FetchStart, pages).result

(***************************************************************************)
(* utils.py: str.strip, str.split and validate_repo_format                 *)
(***************************************************************************)
\* the characters str.strip() removes (those str.isspace() holds for); a character
\* TLA+ has no escape for is written as its code point
Whitespace ==
    {" ", "\t", "\n", "\r", "\f", "U+000B", "U+001C", "U+001D", "U+001E", "U+001F",
     "U+0085", "U+00A0", "U+1680", "U+2000", "U+2001", "U+2002", "U+2003", "U+2004",
     "U+2005", "U+2006", "U+2007", "U+2008", "U+2009", "U+200A", "U+2028", "U+2029",
     "U+202F", "U+205F", "U+3000"}

RECURSIVE LStrip(_)
LStrip(s) == IF s # <<>> /\ Head(s) \in Whitespace THEN LStrip(Tail(s)) ELSE s

RECURSIVE RStrip(_)
RStrip(s) ==
    IF s # <<>> /\ s[Len(s)] \in Whitespace THEN RStrip(SubSeq(s, 1, Len(s) - 1)) ELSE s

Strip(s) == RStrip(LStrip(s))

RECURSIVE Split(_, _)
Split(s, sep) ==
    IF \A i \in 1..Len(s) : s[i] # sep
    THEN <<s>>
    ELSE LET i == CHOOSE k \in 1..Len(s) : s[k] = sep /\ \A j \in 1..(k - 1) : s[j] # sep
         IN  <<SubSeq(s, 1, i - 1)>> \o Split(SubSeq(s, i + 1, Len(s)), sep)

\* mutant: two parts or more
validate_repo_format_prefix(repo) ==
    LET parts == Split(repo, "/")
    IN  Len(parts) >= 2 /\ \A k \in 1..Len(parts) : Strip(parts[k]) # <<>>

validate_repo_format(repo) ==
    LET parts == Split(repo, "/")
    IN  Len(parts) = 2 /\ \A k \in 1..Len(parts) : Strip(parts[k]) # <<>>

(***************************************************************************)
(* database.py: the table issues(id INTEGER PRIMARY KEY, repo, title,      *)
(* body, html_url, created_at). A table is the set of its rows; title and  *)
(* html_url are stored and read back as given and are left out.            *)
(* created_at is an ISO-8601 text the program only orders by: a number.    *)
(***************************************************************************)
\* the row one INSERT writes; issue.get('body') or ''
Row(repo, issue) ==
    [id |-> issue.id, repo |-> repo,
     body |-> IF issue.body = NoneValue THEN "" ELSE issue.body,
     created_at |-> issue.created_at]

RowsOf(table, repo) == {r \in table : r.repo = repo}

\* mutant: the rows of the earlier scan are kept
DeleteNothing(table, repo) == table

\* DELETE FROM issues WHERE repo = ?
DeleteRepo(table, repo) == table \ RowsOf(table, repo)

\* mutant: the table has no key, every INSERT is accepted
ViolatesNoKey(table, issue) == FALSE

\* INSERT INTO issues: the primary key id is unique in the whole table
ViolatesPrimaryKey(table, issue) == \E r \in table : r.id = issue.id

\* Where a sqlite3.Error is raised inside cache_issues for a reason other than
\* the primary key: 0 nowhere, 1 at the DELETE (or at connect), 1 + k at the k-th
\* INSERT, Len(issues) + 2 at the commit.
CacheFaults(issues) == 0..(Len(issues) + 2)

\* the for loop of cache_issues from its k-th pass on, on the connection's
\* uncommitted view of the table. issue['id'] of an issue that is a string raises
\* TypeError before the INSERT is executed: an exception that escapes cache_issues,
\* which catches sqlite3.Error alone
RECURSIVE InsertAll(_, _, _, _, _)
InsertAll(table, repo, issues, k, fault) ==
    IF k > Len(issues)
    THEN [error |-> FALSE, escapes |-> FALSE, table |-> table]
    ELSE IF IsString(issues[k])
         THEN [error |-> TRUE, escapes |-> TRUE, table |-> table]
    ELSE IF fault = k + 1 \/ ViolatesPrimaryKey(table, issues[k])
         THEN [error |-> TRUE, escapes |-> FALSE, table |-> table]
         ELSE InsertAll(table \cup {Row(repo, issues[k])}, repo, issues, k + 1, fault)

\* mutant: what was executed before the exception stays in the table
CloseKeepsChanges(committed, uncommitted) == uncommitted

\* get_db_connection closes the connection without a commit when the block is
\* left by an exception: the uncommitted changes are dropped
CloseWithoutCommit(committed, uncommitted) == committed

\* mutant: every statement is committed as it is executed
cache_issues_autocommit(committed, repo, issues, fault) ==
    LET inserted == InsertAll(DeleteRepo(committed, repo), repo, issues, 1, fault)
    IN  IF fault = 1
        THEN [ok |-> FALSE, raised |-> FALSE, table |-> committed]
        ELSE [ok |-> ~(inserted.error \/ fault = Len(issues) + 2),
              raised |-> inserted.escapes, table |-> inserted.table]

\* cache_issues: [ok, raised, table], the value returned, whether an exception
\* left the function instead, and the committed table after
cache_issues(committed, repo, issues, fault) ==
    LET inserted == InsertAll(DeleteRepo(committed, repo), repo, issues, 1, fault)
    IN  IF fault = 1
        THEN [ok |-> FALSE, raised |-> FALSE, table |-> committed]
        ELSE IF inserted.error \/ fault = Len(issues) + 2
             THEN [ok |-> FALSE, raised |-> inserted.escapes,
                   table |-> CloseWithoutCommit(committed, inserted.table)]
             ELSE [ok |-> TRUE, raised |-> FALSE, table |-> inserted.table]

\* ORDER BY created_at DESC
IsOrderedDesc(rows) ==
    \A i \in 1..(Len(rows) - 1) : rows[i].created_at >= rows[i + 1].created_at

\* SELECT ... WHERE repo = ? ORDER BY created_at DESC, cursor.fetchall(): the rows
\* of repo, each once; SQL leaves the order of rows of equal created_at open
SelectRows(table, repo) ==
    LET R == RowsOf(table, repo)
        n == Cardinality(R)
    IN  {rows \in [1..n -> R] :
            /\ \A i, j \in 1..n : i # j => rows[i] # rows[j]
            /\ IsOrderedDesc(rows)}

None == [none |-> TRUE, issues |-> <<>>]

\* get_cached_issues, rows being what fetchall gave; fault: a sqlite3.Error
get_cached_issues(rows, fault) ==
    IF fault THEN None
    ELSE IF rows = <<>> THEN None
         ELSE [none |-> FALSE, issues |-> rows]

\* mutant: the count is taken over the whole table, not WHERE repo = ?
any_repo_exists_in_cache(table, repo, fault) ==
    IF fault THEN FALSE ELSE Cardinality(table) > 0

\* repo_exists_in_cache: SELECT COUNT(*) ... > 0; fault: a sqlite3.Error
repo_exists_in_cache(table, repo, fault) ==
    IF fault THEN FALSE ELSE Cardinality(RowsOf(table, repo)) > 0

(***************************************************************************)
(* llm_client.py                                                           *)
(***************************************************************************)
\* max_retries = 2
max_retries == 2

\* What client.chat.completions.create does at each attempt of one call of
\* analyze_issues: "ok", or the detail of the exception it raises.
BackendDetails == {"e1", "Groq API key not configured"}

\* error_msg = f"LLM analysis error: {str(e)}"
LLMAnalysisError(detail) ==
    IF detail = "e1" THEN "LLM analysis error: e1"
    ELSE "LLM analysis error: Groq API key not configured"

BackendOutcomes == [1..max_retries -> {"ok"} \cup BackendDetails]

\* mutant: no retry, the first failure ends the call
AttemptOnce(attempt, outcomes) ==
    IF outcomes[attempt + 1] = "ok"
    THEN [success |-> TRUE, analysis |-> "analysis", error |-> NoneValue,
          attempts |-> attempt + 1]
    ELSE [success |-> FALSE, analysis |-> "",
          error |-> LLMAnalysisError(outcomes[attempt + 1]), attempts |-> attempt + 1]

\* mutant: the exception of the first attempt is kept and raised after the last
AttemptLoopRaisingFirst(attempt, outcomes) ==
    IF outcomes[1] = "ok"
    THEN [success |-> TRUE, analysis |-> "analysis", error |-> NoneValue, attempts |-> 1]
    ELSE IF outcomes[max_retries] = "ok"
         THEN [success |-> TRUE, analysis |-> "analysis", error |-> NoneValue,
               attempts |-> max_retries]
         ELSE [success |-> FALSE, analysis |-> "",
               error |-> LLMAnalysisError(outcomes[1]), attempts |-> max_retries]

\* for attempt in range(max_retries), from the given attempt on
RECURSIVE AttemptLoop(_, _)
AttemptLoop(attempt, outcomes) ==
    IF outcomes[attempt + 1] = "ok"
    THEN [success |-> TRUE, analysis |-> "analysis", error |-> NoneValue,
          attempts |-> attempt + 1]
    ELSE IF attempt = max_retries - 1
         THEN [success |-> FALSE, analysis |-> "",
               error |-> LLMAnalysisError(outcomes[attempt + 1]), attempts |-> attempt + 1]
         ELSE AttemptLoop(attempt + 1, outcomes)

\* mutant: the guard is taken at 100 issues already
SubmittedFrom100(issues) == IF Len(issues) >= 100 THEN SubSeq(issues, 1, 50) ELSE issues

\* if len(issues) > 100: issues = issues[:50]
Submitted(issues) == IF Len(issues) > 100 THEN SubSeq(issues, 1, 50) ELSE issues

\* mutant: the backend is tried without a client
analyze_issues_unconfigured(configured, issues, outcomes) ==
    LET r == AttemptLoop(0, outcomes)
    IN  [success |-> r.success, analysis |-> r.analysis, error |-> r.error,
         attempts |-> r.attempts, submitted |-> Submitted(issues)]

\* analyze_issues: the dict returned, with the number of backend calls made and
\* the issues sent
analyze_issues(configured, issues, outcomes) ==
    IF ~configured
    THEN [success |-> FALSE, analysis |-> "", error |-> "Groq API key not configured",
          attempts |-> 0, submitted |-> <<>>]
    ELSE LET r == AttemptLoop(0, outcomes)
         IN  [success |-> r.success, analysis |-> r.analysis, error |-> r.error,
              attempts |-> r.attempts, submitted |-> Submitted(issues)]

(***************************************************************************)
(* main.py: the handlers. A response keeps the request served (repo,       *)
(* prompt and, for /scan, the remote's answers), what the environment did  *)
(* during the call (the sqlite3.Error raised in each database function,    *)
(* the outcome of each backend attempt), the status code, the error of the *)
(* detail (NoneValue on success), the analysis text, the collaborators     *)
(* the handler called, in order, the issues /scan handed to cache_issues   *)
(* and the number of backend calls /analyze caused.                        *)
(***************************************************************************)
Request(raw, prompt, pages) == [repo |-> raw, prompt |-> prompt, pages |-> pages]

Environment(cacheFault, existsFault, readFault, outcomes) ==
    [cacheFault |-> cacheFault, existsFault |-> existsFault, readFault |-> readFault,
     outcomes |-> outcomes]

Response(op, request, env, status, error, analysis, calls, issues, attempts) ==
    [op |-> op, request |-> request, env |-> env, repo |-> Strip(request.repo),
     status |-> status, error |-> error, analysis |-> analysis, calls |-> calls,
     issues |-> issues, attempts |-> attempts]

Idle ==
    Response("idle", Request(<<>>, <<>>, <<>>), Environment(0, FALSE, FALSE, <<>>),
             0, NoneValue, "", <<>>, <<>>, 0)

\* raise HTTPException(status_code, detail = {"error": error, ...})
HttpError(op, request, env, status, error, calls) ==
    Response(op, request, env, status, error, "", calls, <<>>, 0)

\* request.repo of the requests the model sends
RepoInputs ==
    {<<"a", "/", "b">>, <<" ", "a", "/", "b">>, <<"c", "/", "d">>,
     <<"a", "b">>, <<"a", "/", " ">>, <<"/", "b">>, <<"a", "/", "b", "/", "c">>,
     <<"a", "/", "\t">>, <<"a", "/", "b", "\n">>, <<"U+00A0", "/", "b">>}

\* request.prompt of the requests the model sends
PromptInputs == {<<>>, <<" ">>, <<"p">>, <<"\n", "U+00A0">>}

\* the records the remote of the handlers' specification is made of: two issue
\* identifiers, two creation times; issue 1 and the pull requests have no body
IssueIds == {1, 2}

CreatedAts == {1, 2}

RemoteBody(id) == IF id = 1 THEN NoneValue ELSE "b"

RemoteRecords ==
    {Record(id, t, RemoteBody(id), FALSE) : id \in IssueIds, t \in CreatedAts}
    \cup {Record(id, 1, NoneValue, TRUE) : id \in IssueIds}

\* the keys of the JSON objects answered in place of a list
ObjectBodies ==
    {<<KeyItem("message")>>, <<KeyItem("pull_request"), KeyItem("message")>>}

\* the remotes /scan meets: one page of fewer than per_page records, a JSON
\* object, or a failure
ScanRemotes ==
    {<<HttpResponse(200, body)>> : body \in SeqsUpTo(RemoteRecords, MaxIssues)}
    \cup {<<HttpResponse(403, <<>>)>>, <<HttpResponse(404, <<>>)>>,
          <<HttpResponse(500, <<>>)>>, <<RaisedTimeout>>}
    \cup {<<HttpResponse(200, body)>> : body \in ObjectBodies}
    \cup {<<r>> : r \in {RaisedRequestException(t) : t \in ExceptionTexts}
                        \cup {RaisedException(t) : t \in ExceptionTexts}
                        \cup {NotJson(200), Unreadable(200)}}

\* the exception texts that hold 'not found' once in lower case
MentionsNotFound(text) == text = "Tunnel connection failed: 404 Not Found"

\* "not found" in result["error"].lower(), over the errors fetch_all_issues
\* returns: the one of the 404 answer and those quoting such an exception text
ContainsNotFound(error) ==
    error \in {"not found"}
               \cup {NetworkError(t) : t \in {x \in ExceptionTexts : MentionsNotFound(x)}}
               \cup {UnexpectedError(t) : t \in {x \in ExceptionTexts : MentionsNotFound(x)}}

\* 404 if "not found" in result["error"].lower() else 500
FetchStatus(error) == IF ContainsNotFound(error) THEN 404 ELSE 500

\* scan_repo: [resp, table, ok], ok being what cache_issues returned; an exception
\* that leaves the handler is answered 500 Internal Server Error by the server
scan_repo(table, request, env) ==
    LET repo == Strip(request.repo)
        result == fetch_all_issues(request.pages)
        cached == cache_issues(table, repo, result.issues, env.cacheFault)
    IN  IF ~validate_repo_format(repo)
        THEN [resp |-> HttpError("scan", request, env, 400, "Invalid repository format",
                                 <<>>),
              table |-> table, ok |-> FALSE]
        ELSE IF ~result.success
        THEN [resp |-> HttpError("scan", request, env, FetchStatus(result.error),
                                 result.error, <<"fetch_all_issues">>),
              table |-> table, ok |-> FALSE]
        ELSE IF cached.raised
        THEN [resp |-> Response("scan", request, env, 500, "Internal Server Error", "",
                                <<"fetch_all_issues", "cache_issues">>, result.issues, 0),
              table |-> cached.table, ok |-> FALSE]
        ELSE IF ~cached.ok
        THEN [resp |-> Response("scan", request, env, 500, "Failed to cache issues", "",
                                <<"fetch_all_issues", "cache_issues">>, result.issues, 0),
              table |-> cached.table, ok |-> FALSE]
        ELSE [resp |-> Response("scan", request, env, 200, NoneValue, "",
                                <<"fetch_all_issues", "cache_issues">>, result.issues, 0),
              table |-> cached.table, ok |-> TRUE]

\* analyze_repo: the response; rows is what the SELECT of get_cached_issues gives
analyze_repo(table, configured, request, env, rows) ==
    LET repo == Strip(request.repo)
        user_prompt == Strip(request.prompt)
        issues == get_cached_issues(rows, env.readFault)
        result == analyze_issues(configured, issues.issues, env.outcomes)
    IN  IF ~validate_repo_format(repo)
        THEN HttpError("analyze", request, env, 400, "Invalid repository format", <<>>)
        ELSE IF user_prompt = <<>>
        THEN HttpError("analyze", request, env, 400, "Empty prompt", <<>>)
        ELSE IF ~repo_exists_in_cache(table, repo, env.existsFault)
        THEN HttpError("analyze", request, env, 400, "Repository not yet scanned",
                       <<"repo_exists_in_cache">>)
        ELSE IF issues.none
        THEN HttpError("analyze", request, env, 500, "Failed to retrieve cached issues",
                       <<"repo_exists_in_cache", "get_cached_issues">>)
        ELSE IF Len(issues.issues) = 0
        THEN Response("analyze", request, env, 200, NoneValue, "no open issues to analyze",
                      <<"repo_exists_in_cache", "get_cached_issues">>, <<>>, 0)
        ELSE IF ~result.success
        THEN Response("analyze", request, env, 500, result.error, "",
                      <<"repo_exists_in_cache", "get_cached_issues", "analyze_issues">>,
                      <<>>, result.attempts)
        ELSE Response("analyze", request, env, 200, NoneValue, result.analysis,
                      <<"repo_exists_in_cache", "get_cached_issues", "analyze_issues">>,
                      <<>>, result.attempts)

\* the handlers' variables, at rest while SpecFetch runs
StoreAtRest == db = {} /\ replaced = {} /\ client = FALSE /\ resp = Idle

\* analyze_issues has not returned: no dict yet
NoAnalysis ==
    [success |-> FALSE, analysis |-> "", error |-> NoneValue, attempts |-> 0,
     submitted |-> <<>>]

\* no call of analyze_issues on its own
EngineAtRest ==
    engine = [issues |-> <<>>, configured |-> FALSE, outcomes |-> <<>>, done |-> FALSE,
              result |-> NoAnalysis]

\* no request in progress in a worker process
WorkersAtRest == procs = <<>>

InitFetch ==
    /\ remote \in Remotes
    /\ f = FetchStart
    /\ StoreAtRest
    /\ EngineAtRest
    /\ WorkersAtRest

\* one pass of the loop of fetch_all_issues against the remote
FetchPage ==
    /\ ~f.done
    /\ f' = FetchStep(f, Respond(remote, f.page))
    /\ UNCHANGED <<remote, db, replaced, client, resp, engine, procs>>

NextFetch == FetchPage

SpecFetch == InitFetch /\ [][NextFetch]_vars

(***************************************************************************)
(* The handlers' specification: requests are served one at a time (the     *)
(* handlers are coroutines that never await), each against the database    *)
(* file the earlier ones left.                                             *)
(***************************************************************************)
FetchAtRest ==
    /\ remote = [sizes |-> <<>>, prPages |-> {}, prPat |-> "none",
                 failPage |-> 0, failKind |-> "none", failText |-> ""]
    /\ f = FetchStart

\* init_db on a new database file; GROQ_API_KEY is set or not
Init ==
    /\ db = {}
    /\ replaced = {}
    /\ client \in BOOLEAN
    /\ resp = Idle
    /\ FetchAtRest
    /\ EngineAtRest
    /\ WorkersAtRest

\* POST /scan
ScanRepo ==
    /\ resp = Idle
    /\ \E raw \in RepoInputs, pages \in ScanRemotes :
         \E fault \in CacheFaults(fetch_all_issues(pages).issues) :
            LET out == scan_repo(db, Request(raw, <<>>, pages),
                                 Environment(fault, FALSE, FALSE, <<>>))
            IN  /\ resp' = out.resp
                /\ db' = out.table
                /\ replaced' = IF out.ok THEN replaced \cup {out.resp.repo} ELSE replaced
    /\ UNCHANGED <<remote, f, client, engine, procs>>

\* the response of one /analyze call
AnalyzeCall(raw, prompt, existsFault, readFault, outcomes, rows) ==
    resp' = analyze_repo(db, client, Request(raw, prompt, <<>>),
                         Environment(0, existsFault, readFault, outcomes), rows)

\* mutant: the rows read are taken out of the cache
AnalyzeRepoEvicting ==
    /\ resp = Idle
    /\ \E raw \in RepoInputs, prompt \in PromptInputs, existsFault, readFault \in BOOLEAN,
          outcomes \in BackendOutcomes :
         \E rows \in SelectRows(db, Strip(raw)) :
            /\ AnalyzeCall(raw, prompt, existsFault, readFault, outcomes, rows)
            /\ db' = DeleteRepo(db, Strip(raw))
    /\ UNCHANGED <<remote, f, replaced, client, engine, procs>>

\* POST /analyze
AnalyzeRepo ==
    /\ resp = Idle
    /\ \E raw \in RepoInputs, prompt \in PromptInputs, existsFault, readFault \in BOOLEAN,
          outcomes \in BackendOutcomes :
         \E rows \in SelectRows(db, Strip(raw)) :
            AnalyzeCall(raw, prompt, existsFault, readFault, outcomes, rows)
    /\ UNCHANGED <<remote, f, db, replaced, client, engine, procs>>

\* the client has the response; the next request may come
ReceiveResponse ==
    /\ resp # Idle
    /\ resp' = Idle
    /\ UNCHANGED <<remote, f, db, replaced, client, engine, procs>>

Next == ScanRepo \/ AnalyzeRepo \/ ReceiveResponse

Spec == Init /\ [][Next]_vars

(***************************************************************************)
(* analyze_issues on its own: the issues are the rows get_cached_issues    *)
(* gave, n of them, newest first.                                          *)
(***************************************************************************)
EngineSizes == {0, 1, 50, 51, 99, 100, 101, 120}

EngineIssues(n) ==
    [i \in 1..n |-> [id |-> i, repo |-> <<"a", "/", "b">>, body |-> "", created_at |-> n - i]]

InitEngine ==
    /\ engine \in {[issues |-> EngineIssues(n), configured |-> c, outcomes |-> o,
                     done |-> FALSE, result |-> NoAnalysis] :
                        n \in EngineSizes, c \in BOOLEAN, o \in BackendOutcomes}
    /\ StoreAtRest
    /\ FetchAtRest
    /\ WorkersAtRest

\* result = analyze_issues(issues, user_prompt)
EngineAnalyze ==
    /\ ~engine.done
    /\ engine' = [engine EXCEPT
                    !.done = TRUE,
                    !.result = analyze_issues(engine.configured, engine.issues,
                                              engine.outcomes)]
    /\ UNCHANGED <<remote, f, db, replaced, client, resp, procs>>

NextEngine == EngineAnalyze

SpecEngine == InitEngine /\ [][NextEngine]_vars

(***************************************************************************)
(* The claims. A key is Scanned once cache_issues has returned True for    *)
(* it (replaced), Unscanned before.                                        *)
(***************************************************************************)
\* the valid repository keys among the requests of the model
Keys == {Strip(raw) : raw \in {r \in RepoInputs : validate_repo_format(Strip(r))}}

\* the last call was /analyze with a valid key and a non-blank prompt
ValidAnalyze ==
    /\ resp.op = "analyze"
    /\ validate_repo_format(resp.repo)
    /\ Strip(resp.request.prompt) # <<>>

\* the last call was /scan with a valid key
ValidScan == resp.op = "scan" /\ validate_repo_format(resp.repo)

\* C1: an /analyze call with a valid key and a non-blank prompt on a key that is
\* Unscanned is answered 400 'Repository not yet scanned', and the only
\* collaborator called is repo_exists_in_cache: get_cached_issues is not called
\* and no backend call is made.
C1_UnscannedAnalyzeRejected ==
    (ValidAnalyze /\ resp.repo \notin replaced) =>
        /\ resp.status = 400
        /\ resp.error = "Repository not yet scanned"
        /\ resp.calls = <<"repo_exists_in_cache">>
        /\ resp.attempts = 0

\* an Unscanned key was analyzed while the table held rows of another key
C1_Witness ==
    /\ ValidAnalyze
    /\ resp.repo \notin replaced
    /\ ~resp.env.existsFault
    /\ db # {}
    /\ resp.status = 400

\* C2: repo_exists_in_cache is false for a key no cache_issues has succeeded for,
\* and true right after every successful cache_issues for the key, whatever the
\* issue list, the empty one included.
C2_ExistsAfterReplace ==
    /\ \A key \in Keys \ replaced : ~repo_exists_in_cache(db, key, FALSE)
    /\ (ValidScan /\ resp.status = 200) => repo_exists_in_cache(db, resp.repo, FALSE)

\* the key has a snapshot and the snapshot holds no issue
EmptySnapshot(key) == key \in replaced /\ RowsOf(db, key) = {}

\* C3: /analyze (valid key, non-blank prompt, no database error) on a key whose
\* snapshot holds zero issues answers 200 with the 'no open issues to analyze'
\* message and calls the backend zero times.
C3_EmptySnapshotAnalyzed ==
    (ValidAnalyze /\ EmptySnapshot(resp.repo)
        /\ ~resp.env.existsFault /\ ~resp.env.readFault) =>
        /\ resp.status = 200
        /\ resp.analysis = "no open issues to analyze"
        /\ resp.attempts = 0

\* C4: get_cached_issues (without a database error) returns None exactly for the
\* keys no cache_issues has succeeded for, and the empty list, not None, for a key
\* whose last successful cache_issues stored zero issues.
C4_ReadNoneIffUnscanned ==
    \A key \in Keys : \A rows \in SelectRows(db, key) :
        LET read == get_cached_issues(rows, FALSE)
        IN  /\ read.none <=> key \notin replaced
            /\ EmptySnapshot(key) => read = [none |-> FALSE, issues |-> <<>>]

DistinctIds(issues) ==
    \A i, j \in 1..Len(issues) :
        (i # j /\ ~IsString(issues[i]) /\ ~IsString(issues[j])) =>
            issues[i].id # issues[j].id

\* what get_cached_issues returns for the key right after /scan stored the issues
\* of the response: a list of exactly the rows of those issues, newest first
ReadsBackWhatWasStored ==
    \A rows \in SelectRows(db, resp.repo) :
        LET read == get_cached_issues(rows, FALSE)
        IN  /\ ~read.none
            /\ Len(read.issues) = Len(resp.issues)
            /\ {read.issues[i] : i \in 1..Len(read.issues)}
                 = {Row(resp.repo, resp.issues[i]) : i \in 1..Len(resp.issues)}
            /\ IsOrderedDesc(read.issues)

\* C5: right after a successful cache_issues(repo, issues), for every table before
\* it and every list of issues with distinct identifiers, get_cached_issues(repo)
\* returns exactly the issues passed, ordered by created_at descending.
C5_ReplaceThenRead ==
    (ValidScan /\ resp.status = 200 /\ DistinctIds(resp.issues)) => ReadsBackWhatWasStored

\* the remote answered the first page with something else than a 200
FetchFails(pages) == pages[1].kind # "http" \/ pages[1].status # 200

FetchErrors ==
    {"timed out", "rate limit exceeded", "not found", "api error"}
    \cup {NetworkError(t) : t \in ExceptionTexts \cup {NotJson(200).text}}
    \cup {UnexpectedError(t) : t \in ExceptionTexts \cup {Unreadable(200).text}}

\* the error that tells what the remote answered
UnderlyingError(response) ==
    CASE response.kind = "timeout" -> "timed out"
      [] response.kind = "network" -> NetworkError(response.text)
      [] response.kind = "unexpected" -> UnexpectedError(response.text)
      [] response.status = 403 -> "rate limit exceeded"
      [] response.status = 404 -> "not found"
      [] response.status # 200 -> "api error"
      [] response.kind = "notjson" -> NetworkError(response.text)
      [] OTHER -> UnexpectedError(response.text)

\* C6: a /scan of an Unscanned key in which fetch_all_issues fails or cache_issues
\* fails is answered with an error (the error of the fetch with 404 or 500, or 500
\* 'Failed to cache issues', or the server's 500 when cache_issues is left by an
\* exception), the key stays Unscanned with no row stored and
\* repo_exists_in_cache false, and cache_issues is not called when the fetch
\* failed.
C6_FailedScanStaysUnscanned ==
    /\ (ValidScan /\ (FetchFails(resp.request.pages) \/ resp.env.cacheFault # 0)) =>
            resp.status # 200
    /\ (ValidScan /\ resp.repo \notin replaced) =>
            /\ resp.status # 200
            /\ RowsOf(db, resp.repo) = {}
            /\ ~repo_exists_in_cache(db, resp.repo, FALSE)
            /\ IF FetchFails(resp.request.pages)
               THEN /\ resp.calls = <<"fetch_all_issues">>
                    /\ resp.error \in FetchErrors
                    /\ resp.error = UnderlyingError(resp.request.pages[1])
                    /\ resp.status \in {404, 500}
               ELSE /\ resp.calls = <<"fetch_all_issues", "cache_issues">>
                    /\ resp.error \in {"Failed to cache issues", "Internal Server Error"}
                    /\ resp.status = 500

\* cache_issues failed at its second INSERT for an Unscanned key
C6_Witness ==
    /\ ValidScan
    /\ resp.repo \notin replaced
    /\ resp.calls = <<"fetch_all_issues", "cache_issues">>
    /\ Len(resp.issues) = 2
    /\ resp.env.cacheFault = 3

\* C7: a key that is Scanned stays Scanned: once cache_issues has succeeded for
\* it and repo_exists_in_cache is true, repo_exists_in_cache is still true after
\* every further call (a /scan that succeeds or fails, an /analyze).
C7_ScannedForever ==
    [][\A key \in Keys :
          (key \in replaced /\ repo_exists_in_cache(db, key, FALSE)) =>
              repo_exists_in_cache(db', key, FALSE)]_vars

\* C8: an /analyze call, whatever its outcome, leaves the table as it was.
C8_AnalyzeLeavesStore == [][resp'.op = "analyze" => db' = db]_vars

\* the backend was called for a key with rows and failed
C8_Witness ==
    /\ ValidAnalyze
    /\ resp.status = 500
    /\ resp.attempts = max_retries
    /\ RowsOf(db, resp.repo) # {}

(***************************************************************************)
(* The claims on fetch_all_issues, under SpecFetch.                        *)
(***************************************************************************)
\* the page the pagination has to stop at
LastPage(rem) == IF rem.sizes = <<>> THEN 1 ELSE Len(rem.sizes)

\* every page before the last holds per_page records, the last holds fewer; no
\* request up to the last page fails
WellFormed(rem) ==
    /\ \A p \in 1..(Len(rem.sizes) - 1) : rem.sizes[p] = per_page
    /\ PageSize(rem, LastPage(rem)) < per_page
    /\ rem.failPage \notin 1..LastPage(rem)

RECURSIVE TotalSize(_, _)
TotalSize(rem, p) == IF p = 0 THEN 0 ELSE PageSize(rem, p) + TotalSize(rem, p - 1)

\* the k-th record of a well-formed remote, in the order of the stream
StreamRecord(rem, k) == RecordAt(rem, ((k - 1) \div per_page) + 1, ((k - 1) % per_page) + 1)

IsNotPullRequest(r) == ~r.pull_request

\* the issues of a well-formed remote, in the order of the stream
StreamIssues(rem) ==
    SelectSeq([k \in 1..TotalSize(rem, Len(rem.sizes)) |-> StreamRecord(rem, k)],
              IsNotPullRequest)

\* C9: the pages are requested in the order 1, 2, ...; against a remote whose
\* pages before the last hold per_page records and whose last page holds fewer,
\* fetch_all_issues stops with the request of the last page, succeeds and returns
\* the issues in the order met: none for an empty remote, 337 for three pages of
\* 100 issues and one of 37.
C9_PaginationStopsAtLastPage ==
    /\ f.requests = [i \in 1..Len(f.requests) |-> i]
    /\ (f.done /\ WellFormed(remote)) =>
            /\ Len(f.requests) = LastPage(remote)
            /\ f.result.success
            /\ f.result.issues = StreamIssues(remote)
    /\ (f.done /\ remote.sizes = <<>> /\ remote.failPage # 1) =>
            f.result.success /\ f.result.issues = <<>>
    /\ (f.done /\ remote.sizes = <<100, 100, 100, 37>> /\ remote.prPages = {}
            /\ remote.failPage = 0) =>
            Len(f.result.issues) = 337

\* three pages of 100 issues and a page of 37 were fetched
C9_Witness ==
    /\ f.done
    /\ remote.sizes = <<100, 100, 100, 37>>
    /\ remote.prPages = {}
    /\ remote.failPage = 0
    /\ f.requests = <<1, 2, 3, 4>>
    /\ Len(f.result.issues) = 337

\* the identifiers of the records of the requested pages that are no pull requests
IssueIdsOfPage(rem, p) ==
    {RecordAt(rem, p, i).id : i \in {j \in 1..PageSize(rem, p) : ~IsPullRequestAt(rem, p, j)}}

FetchedIssueIds ==
    UNION {IssueIdsOfPage(remote, f.requests[n]) : n \in 1..Len(f.requests)}

\* C10: the list a successful fetch_all_issues returns holds no record with the
\* pull_request key, and holds every other record of every page fetched, once.
C10_NoPullRequestReturned ==
    (f.done /\ f.result.success) =>
        /\ \A i \in 1..Len(f.result.issues) : ~f.result.issues[i].pull_request
        /\ {f.result.issues[i].id : i \in 1..Len(f.result.issues)} = FetchedIssueIds
        /\ Len(f.result.issues) = Cardinality(FetchedIssueIds)

\* the last record of the full second page was a pull request, a third page with
\* issues followed
C10_Witness ==
    /\ f.done
    /\ f.result.success
    /\ remote.prPages = {2}
    /\ remote.prPat = "last"
    /\ f.requests = <<1, 2, 3>>
    /\ Len(f.result.issues) = 2 * per_page - 1 + 37

\* the request of page failPage is made: every page before it is full
FailureReached(rem) ==
    /\ rem.failPage # 0
    /\ \A p \in 1..(rem.failPage - 1) : PageSize(rem, p) = per_page

\* the error of the failure dict for each kind of failing answer
ErrorOfKind(kind, text) ==
    CASE kind = "403" -> "rate limit exceeded"
      [] kind = "404" -> "not found"
      [] kind = "500" -> "api error"
      [] kind = "timeout" -> "timed out"
      [] kind = "network" -> NetworkError(text)
      [] kind = "unexpected" -> UnexpectedError(text)
      [] kind = "notjson" -> NetworkError(NotJson(200).text)
      [] OTHER -> UnexpectedError(Unreadable(200).text)

\* C11: fetch_all_issues ends at the first page request that does not succeed
\* (403, 404, another status, timeout, transport fault, any other exception, a
\* body that is not JSON or whose filtering raises): that request is the last
\* one, the result is a failure of the matching kind, and its issue list is empty
\* even when earlier pages were fetched; a failure is returned for no other reason.
C11_FirstFailureEndsFetch ==
    /\ (f.done /\ FailureReached(remote)) =>
            /\ ~f.result.success
            /\ f.result.issues = <<>>
            /\ f.result.error = ErrorOfKind(remote.failKind, remote.failText)
            /\ f.requests = [i \in 1..remote.failPage |-> i]
    /\ (f.done /\ ~f.result.success) =>
            FailureReached(remote) /\ f.result.issues = <<>>

\* the third request failed after two full pages of issues were collected
C11_Witness ==
    /\ f.done
    /\ remote.failPage = 3
    /\ f.requests = <<1, 2, 3>>
    /\ Len(f.issues) >= 2 * per_page - 2
    /\ f.result.issues = <<>>

\* C20: the pagination goes on or stops on the number of raw records of the page,
\* whatever the number of issues kept: every page followed by another request
\* held exactly per_page records (even per_page pull requests), and the page a
\* successful fetch stopped at held fewer.
C20_StopTestCountsRawRecords ==
    /\ \A n \in 1..(Len(f.requests) - 1) : PageSize(remote, f.requests[n]) = per_page
    /\ (~f.done /\ f.requests # <<>>) =>
            PageSize(remote, f.requests[Len(f.requests)]) = per_page
    /\ (f.done /\ f.result.success) =>
            PageSize(remote, f.requests[Len(f.requests)]) < per_page

\* a first page of per_page pull requests and no issue was followed by the request
\* of page 2
C20_Witness ==
    /\ remote.prPat = "all"
    /\ 1 \in remote.prPages
    /\ PageSize(remote, 1) = per_page
    /\ f.issues = <<>>
    /\ f.requests = <<1, 2>>

(***************************************************************************)
(* The claims on analyze_issues, under SpecEngine.                         *)
(***************************************************************************)
\* analyze_issues has returned and a client was configured
EngineReturned == engine.done /\ engine.configured

BothAttemptsFail == engine.outcomes[1] # "ok" /\ engine.outcomes[2] # "ok"

\* C12: one call of analyze_issues calls the backend at most 2 times: once when
\* the first call succeeds, twice when it fails; a success of the second call gives
\* a success result, two failures give the result success = False with an error
\* (a value returned, the call does not raise).
C12_AtMostTwoAttempts ==
    EngineReturned =>
        /\ engine.result.attempts \in {1, 2}
        /\ engine.outcomes[1] = "ok" =>
                engine.result.attempts = 1 /\ engine.result.success
        /\ engine.outcomes[1] # "ok" => engine.result.attempts = 2
        /\ (engine.outcomes[1] # "ok" /\ engine.outcomes[2] = "ok") =>
                engine.result.success /\ engine.result.error = NoneValue
        /\ BothAttemptsFail =>
                /\ ~engine.result.success
                /\ engine.result.analysis = ""
                /\ engine.result.error \in {LLMAnalysisError(d) : d \in BackendDetails}

\* both attempts failed
C12_Witness ==
    /\ EngineReturned
    /\ BothAttemptsFail
    /\ engine.result.attempts = 2
    /\ ~engine.result.success

\* C13 as claimed: when both attempts fail, the error returned carries the detail
\* of the first attempt's failure.
C13_FirstFailureSurfaced ==
    (EngineReturned /\ BothAttemptsFail) =>
        engine.result.error = LLMAnalysisError(engine.outcomes[1])

\* C13: when both attempts fail, the error returned carries the detail of the
\* failure of the last (second) attempt: the exception the bare raise re-raises.
C13_LastFailureSurfaced ==
    (EngineReturned /\ BothAttemptsFail) =>
        engine.result.error = LLMAnalysisError(engine.outcomes[2])

\* the two attempts failed with different details
C13_Witness ==
    /\ EngineReturned
    /\ BothAttemptsFail
    /\ engine.outcomes[1] # engine.outcomes[2]
    /\ ~engine.result.success

\* C14: without a client (no GROQ_API_KEY) analyze_issues returns the error
\* 'Groq API key not configured' for every input and calls the backend zero
\* times; the error of two failed attempts is never that one, even when the
\* backend's exception carries the same text.
C14_NotConfiguredReturnedAtOnce ==
    /\ (engine.done /\ ~engine.configured) =>
            /\ ~engine.result.success
            /\ engine.result.error = "Groq API key not configured"
            /\ engine.result.attempts = 0
            /\ engine.result.submitted = <<>>
    /\ (EngineReturned /\ ~engine.result.success) =>
            /\ engine.result.error # "Groq API key not configured"
            /\ engine.result.attempts = max_retries

\* no client, 120 issues, a backend that would have answered
C14_Witness ==
    /\ engine.done
    /\ ~engine.configured
    /\ Len(engine.issues) = 120
    /\ engine.outcomes[1] = "ok"
    /\ engine.result.attempts = 0

\* C15: of n issues, analyze_issues sends all n in their order when n <= 100 and
\* the first 50 in their order when n > 100: 100 of 100, 50 of 101, 50 of 120.
C15_FirstFiftyAboveHundred ==
    EngineReturned =>
        LET n == Len(engine.issues)
            sent == engine.result.submitted
        IN  /\ n <= 100 => sent = engine.issues
            /\ n > 100 => sent = [i \in 1..50 |-> engine.issues[i]]
            /\ n = 100 => Len(sent) = 100
            /\ n \in {101, 120} => Len(sent) = 50

\* 120 issues came in, 50 went out
C15_Witness ==
    /\ EngineReturned
    /\ Len(engine.issues) = 120
    /\ Len(engine.result.submitted) = 50
    /\ engine.result.submitted[50] = engine.issues[50]

(***************************************************************************)
(* The claims on the order of the handlers' checks, under Spec.            *)
(***************************************************************************)
\* s is not blank: it has a character that is not white space
NonBlank(s) == \E i \in 1..Len(s) : s[i] \notin Whitespace

\* s has one separator, with a segment that is not blank on each side of it
TwoNonBlankSegments(s) ==
    \E i \in 1..Len(s) :
        /\ s[i] = "/"
        /\ \A j \in 1..Len(s) : s[j] = "/" => j = i
        /\ NonBlank(SubSeq(s, 1, i - 1))
        /\ NonBlank(SubSeq(s, i + 1, Len(s)))

\* the response says the request was rejected before any call was made
RejectedAtOnce(r, error) ==
    r.status = 400 /\ r.error = error /\ r.calls = <<>> /\ r.attempts = 0

\* C16: a /scan or /analyze request whose repo is not two non-blank segments
\* around one '/' gets 400 'Invalid repository format', an /analyze request of a
\* well-formed repo with a blank prompt gets 400 'Empty prompt' (also when the key
\* was never scanned); both before any fetch, cache read, cache write or backend
\* call, the table left as it was. A well-formed request goes on to its first call.
C16_ValidationBeforeSideEffects ==
    [][resp' # Idle =>
        LET r == resp'
            shaped == TwoNonBlankSegments(r.request.repo)
            blank == r.op = "analyze" /\ ~NonBlank(r.request.prompt)
        IN  /\ ~shaped => RejectedAtOnce(r, "Invalid repository format")
            /\ (shaped /\ blank) => RejectedAtOnce(r, "Empty prompt")
            /\ (shaped /\ ~blank) => r.calls # <<>>
            /\ r.calls = <<>> => db' = db /\ replaced' = replaced]_vars

\* a blank prompt on a key never scanned is answered 'Empty prompt'
C16_Witness ==
    /\ resp.op = "analyze"
    /\ resp.request.repo = <<" ", "a", "/", "b">>
    /\ resp.request.prompt = <<" ">>
    /\ resp.repo \notin replaced
    /\ RowsOf(db, resp.repo) = {}
    /\ \E r \in db : r.repo # resp.repo
    /\ RejectedAtOnce(resp, "Empty prompt")

\* C19 as claimed: an /analyze of a key that has rows in the table is never
\* answered 'Repository not yet scanned'; a storage error of the existence check
\* is answered as a server error.
C19_StoreFaultIsNotGateError ==
    (ValidAnalyze /\ RowsOf(db, resp.repo) # {}) =>
        /\ resp.error # "Repository not yet scanned"
        /\ resp.env.existsFault => resp.status = 500

(***************************************************************************)
(* Several server processes on one database file (uvicorn --workers, or    *)
(* two instances of the service): inside one process a handler runs from   *)
(* its first line to its response, between processes the handlers          *)
(* interleave at their calls of sqlite. Every call of get_db_connection is *)
(* a connection of its own. The DELETE of cache_issues opens a write       *)
(* transaction: sqlite grants the write lock to one connection at a time   *)
(* and keeps the writer's changes out of the other connections' sight      *)
(* until the commit; a connection that finds the lock taken waits (the     *)
(* timeout of sqlite3.connect) and then raises OperationalError.           *)
(* procs[w] is the request worker w serves:                                *)
(*   pc       start, fetched, writing, checked, done                       *)
(*   issues   /scan: what fetch_all_issues returned                        *)
(*   view     /scan: the table as the open write transaction sees it       *)
(*   k        /scan: the pass of the INSERT loop to come                   *)
(*   waited   /scan: the DELETE found the database locked                  *)
(*   selected /analyze: the SELECT of get_cached_issues has run; rows is   *)
(*            what it gave and writer who held the write lock then (0: no  *)
(*            one)                                                         *)
(*   raised   /analyze: a query raised sqlite3.Error                       *)
(*   status, error   the response                                          *)
(***************************************************************************)
\* request.repo of every request of this specification
WorkerRepo == <<"a", "/", "b">>

\* what each worker is asked: two /scan and one /analyze of WorkerRepo
WorkerOps == <<"scan", "scan", "analyze">>

\* the issues the scan before had cached
OldIssues == <<Record(2, 2, "b", FALSE), Record(1, 1, NoneValue, FALSE)>>

\* what GitHub answers the two scans: no issue, issues 3 and 4, issue 5 and a pull
\* request, issue 1 again and issue 3, or not found
WorkerRemotes ==
    {<<HttpResponse(200, <<>>)>>,
     <<HttpResponse(200, <<Record(4, 4, "b", FALSE), Record(3, 3, NoneValue, FALSE)>>)>>,
     <<HttpResponse(200, <<Record(6, 5, "b", TRUE), Record(5, 5, "b", FALSE)>>)>>,
     <<HttpResponse(200, <<Record(3, 3, "b", FALSE), Record(1, 1, "b", FALSE)>>)>>,
     <<HttpResponse(200, <<KeyItem("message")>>)>>,
     <<HttpResponse(404, <<>>)>>}

\* the backend answers both attempts, or fails both
WorkerOutcomes == {[i \in 1..max_retries |-> "ok"], [i \in 1..max_retries |-> "e1"]}

\* the rows a committed cache_issues(repo, issues) leaves for repo
StoredRows(repo, issues) == {Row(repo, issues[i]) : i \in 1..Len(issues)}

WorkerStart(op) ==
    [op |-> op, pc |-> "start", issues |-> <<>>, view |-> {}, k |-> 0, waited |-> FALSE,
     selected |-> FALSE, rows |-> <<>>, writer |-> 0, raised |-> FALSE, status |-> 0,
     error |-> NoneValue]

\* the response is sent
WorkerDone(p, status, error) ==
    [p EXCEPT !.pc = "done", !.status = status, !.error = error, !.view = {}]

\* the workers holding the write lock: one at most
Writers == {w \in DOMAIN procs : procs[w].pc = "writing"}

WriterNow == IF Writers = {} THEN 0 ELSE CHOOSE w \in Writers : TRUE

\* the table as the open write transaction has it
Uncommitted == IF Writers = {} THEN db ELSE procs[WriterNow].view

\* mutant: a connection sees the changes another connection has not committed
ReadUncommitted(committed, uncommitted) == uncommitted

\* what a statement on a connection without a transaction of its own reads: the
\* committed table
Visible(committed, uncommitted) == committed

\* init_db, an earlier scan of WorkerRepo that cached OldIssues, three requests
InitWorkers ==
    /\ db = StoredRows(Strip(WorkerRepo), OldIssues)
    /\ replaced = {Strip(WorkerRepo)}
    /\ client = TRUE
    /\ resp = Idle
    /\ FetchAtRest
    /\ EngineAtRest
    /\ procs = [w \in DOMAIN WorkerOps |-> WorkerStart(WorkerOps[w])]

\* /scan up to the call of cache_issues
WorkerFetch(w) ==
    /\ procs[w].op = "scan" /\ procs[w].pc = "start"
    /\ \E pages \in WorkerRemotes :
         LET result == fetch_all_issues(pages)
         IN  procs' = [procs EXCEPT ![w] =
                IF ~validate_repo_format(Strip(WorkerRepo))
                THEN WorkerDone(@, 400, "Invalid repository format")
                ELSE IF ~result.success
                THEN WorkerDone(@, FetchStatus(result.error), result.error)
                ELSE [@ EXCEPT !.pc = "fetched", !.issues = result.issues]]
    /\ UNCHANGED <<remote, f, db, replaced, client, resp, engine>>

\* cache_issues: the DELETE finds the database locked by another writer and waits
WorkerWait(w) ==
    /\ procs[w].pc = "fetched" /\ Writers # {} /\ ~procs[w].waited
    /\ procs' = [procs EXCEPT ![w].waited = TRUE]
    /\ UNCHANGED <<remote, f, db, replaced, client, resp, engine>>

\* cache_issues: the wait times out, sqlite3.OperationalError, return False
WorkerTimeout(w) ==
    /\ procs[w].pc = "fetched" /\ Writers # {} /\ procs[w].waited
    /\ procs' = [procs EXCEPT ![w] = WorkerDone(@, 500, "Failed to cache issues")]
    /\ UNCHANGED <<remote, f, db, replaced, client, resp, engine>>

\* cache_issues: sqlite3.connect or the DELETE raises a sqlite3.Error that is no
\* lock timeout (whoever holds the write lock), or the DELETE takes the write lock
\* that no one holds
WorkerDelete(w) ==
    /\ procs[w].pc = "fetched"
    /\ \E raises \in BOOLEAN :
         IF raises
         THEN procs' = [procs EXCEPT ![w] = WorkerDone(@, 500, "Failed to cache issues")]
         ELSE /\ Writers = {}
              /\ procs' = [procs EXCEPT ![w] =
                    [@ EXCEPT !.pc = "writing", !.k = 1,
                              !.view = DeleteRepo(db, Strip(WorkerRepo))]]
    /\ UNCHANGED <<remote, f, db, replaced, client, resp, engine>>

\* cache_issues: one INSERT; on a sqlite3.Error, or a TypeError for an issue that
\* is a string, the connection is closed
WorkerInsert(w) ==
    LET p == procs[w]
    IN  /\ p.pc = "writing" /\ p.k <= Len(p.issues)
        /\ \E raises \in BOOLEAN :
             IF IsString(p.issues[p.k])
             THEN /\ procs' = [procs EXCEPT ![w] =
                                 WorkerDone(@, 500, "Internal Server Error")]
                  /\ db' = CloseWithoutCommit(db, p.view)
             ELSE IF raises \/ ViolatesPrimaryKey(p.view, p.issues[p.k])
             THEN /\ procs' = [procs EXCEPT ![w] =
                                 WorkerDone(@, 500, "Failed to cache issues")]
                  /\ db' = CloseWithoutCommit(db, p.view)
             ELSE /\ procs' = [procs EXCEPT ![w].k = p.k + 1,
                                 ![w].view = p.view \cup {Row(Strip(WorkerRepo),
                                                              p.issues[p.k])}]
                  /\ db' = db
        /\ UNCHANGED <<remote, f, replaced, client, resp, engine>>

\* cache_issues: conn.commit() and return True, or a sqlite3.Error
WorkerCommit(w) ==
    LET p == procs[w]
    IN  /\ p.pc = "writing" /\ p.k > Len(p.issues)
        /\ \E raises \in BOOLEAN :
             IF raises
             THEN /\ procs' = [procs EXCEPT ![w] =
                                 WorkerDone(@, 500, "Failed to cache issues")]
                  /\ db' = CloseWithoutCommit(db, p.view)
                  /\ replaced' = replaced
             ELSE /\ procs' = [procs EXCEPT ![w] = WorkerDone(@, 200, NoneValue)]
                  /\ db' = p.view
                  /\ replaced' = replaced \cup {Strip(WorkerRepo)}
        /\ UNCHANGED <<remote, f, client, resp, engine>>

\* /analyze with the prompt 'p' up to the existence check
WorkerExists(w) ==
    /\ procs[w].op = "analyze" /\ procs[w].pc = "start"
    /\ \E fault \in BOOLEAN :
         procs' = [procs EXCEPT ![w] =
            IF ~validate_repo_format(Strip(WorkerRepo))
            THEN WorkerDone(@, 400, "Invalid repository format")
            ELSE IF ~repo_exists_in_cache(Visible(db, Uncommitted), Strip(WorkerRepo), fault)
            THEN WorkerDone([@ EXCEPT !.raised = fault], 400, "Repository not yet scanned")
            ELSE [@ EXCEPT !.pc = "checked"]]
    /\ UNCHANGED <<remote, f, db, replaced, client, resp, engine>>

\* /analyze from get_cached_issues to the response
WorkerSelect(w) ==
    /\ procs[w].pc = "checked"
    /\ \E fault \in BOOLEAN, outcomes \in WorkerOutcomes :
         \E rows \in SelectRows(Visible(db, Uncommitted), Strip(WorkerRepo)) :
            LET issues == get_cached_issues(rows, fault)
                result == analyze_issues(client, issues.issues, outcomes)
            IN  procs' = [procs EXCEPT ![w] =
                   LET p == IF fault THEN [@ EXCEPT !.raised = TRUE]
                            ELSE [@ EXCEPT !.selected = TRUE, !.rows = rows,
                                           !.writer = WriterNow]
                   IN  IF issues.none
                       THEN WorkerDone(p, 500, "Failed to retrieve cached issues")
                       ELSE IF Len(issues.issues) = 0
                       THEN WorkerDone(p, 200, NoneValue)
                       ELSE IF ~result.success
                       THEN WorkerDone(p, 500, result.error)
                       ELSE WorkerDone(p, 200, NoneValue)]
    /\ UNCHANGED <<remote, f, db, replaced, client, resp, engine>>

NextWorkers ==
    \E w \in DOMAIN procs :
        \/ WorkerFetch(w)
        \/ WorkerWait(w)
        \/ WorkerTimeout(w)
        \/ WorkerDelete(w)
        \/ WorkerInsert(w)
        \/ WorkerCommit(w)
        \/ WorkerExists(w)
        \/ WorkerSelect(w)

SpecWorkers == InitWorkers /\ [][NextWorkers]_vars

(***************************************************************************)
(* The claims on concurrent requests, under SpecWorkers.                   *)
(***************************************************************************)
Scanners == {w \in DOMAIN procs : procs[w].op = "scan"}

Analyzers == {w \in DOMAIN procs : procs[w].op = "analyze"}

\* the scans whose cache_issues has returned True
Succeeded == {v \in Scanners : procs[v].pc = "done" /\ procs[v].status = 200}

\* the complete issue sets WorkerRepo has had so far: the one before the scans
\* and the one of every scan that has committed
Snapshots ==
    {StoredRows(Strip(WorkerRepo), OldIssues)}
    \cup {StoredRows(Strip(WorkerRepo), procs[v].issues) : v \in Succeeded}

RowSet(rows) == {rows[i] : i \in 1..Len(rows)}

\* C17: what an /analyze running along with scans of the same key reads is the
\* complete issue set from before a scan or the complete issue set a committed
\* scan left, each row once: never the table of a replace under way, never a mix;
\* and it finds no row (without a storage error) only when a scan committed the
\* empty set.
C17_AnalyzeReadsCompleteSnapshot ==
    \A w \in Analyzers :
        /\ procs[w].selected =>
                /\ RowSet(procs[w].rows) \in Snapshots
                /\ Cardinality(RowSet(procs[w].rows)) = Len(procs[w].rows)
        /\ (procs[w].error = "Repository not yet scanned" /\ ~procs[w].raised) =>
                {} \in Snapshots

\* the SELECT ran while a scan had deleted the old rows and inserted one of its
\* two issues, and gave the two old issues
C17_Witness ==
    \E w \in Analyzers, v \in Scanners :
        /\ procs[w].selected
        /\ procs[w].writer = v
        /\ procs[w].status = 200
        /\ RowSet(procs[w].rows) = StoredRows(Strip(WorkerRepo), OldIssues)
        /\ procs[v].pc = "writing"
        /\ procs[v].k = 2
        /\ Len(procs[v].issues) = 2
        /\ RowsOf(procs[v].view, Strip(WorkerRepo)) # RowsOf(db, Strip(WorkerRepo))

\* worker w's cache_issues commits in this step
Commits(w) ==
    /\ procs[w].pc = "writing"
    /\ procs'[w].pc = "done"
    /\ procs'[w].status = 200

\* C18: with scans of the same key racing, the rows of the key are at any time
\* those of the scan that committed last: a commit leaves exactly the issues its
\* scan fetched (none of the other scan's, none of the old ones, all of its own),
\* and no other step changes the table.
C18_LastCommitWins ==
    [][/\ \A w \in Scanners :
            Commits(w) => RowsOf(db', Strip(WorkerRepo))
                            = StoredRows(Strip(WorkerRepo), procs[w].issues)
       /\ (\A w \in Scanners : ~Commits(w)) => db' = db
       /\ (\A w \in Scanners : procs'[w].pc = "done" /\ procs'[w].status = 200) =>
            \E w \in Scanners :
                RowsOf(db', Strip(WorkerRepo))
                    = StoredRows(Strip(WorkerRepo), procs'[w].issues)]_vars

\* both scans succeeded, the second after waiting for the first one's lock; their
\* issue sets share no issue, neither is empty, and the table has the second's
C18_Witness ==
    \E v, w \in Scanners :
        /\ v # w
        /\ Succeeded = {v, w}
        /\ procs[w].waited /\ ~procs[v].waited
        /\ procs[v].issues # <<>> /\ procs[w].issues # <<>>
        /\ StoredRows(Strip(WorkerRepo), procs[v].issues)
             \cap StoredRows(Strip(WorkerRepo), procs[w].issues) = {}
        /\ RowsOf(db, Strip(WorkerRepo)) = StoredRows(Strip(WorkerRepo), procs[w].issues)

(***************************************************************************)
(* fetch_all_issues against a remote that holds n records and answers      *)
(* every request: page p is the records 100 (p - 1) + 1 .. 100 p of them.  *)
(* The loop has no await and no sleep: a request that is due is made.      *)
(***************************************************************************)
\* the numbers of records after the full pages of a stream
StreamRests == {0, 1, 37, per_page - 1}

\* the numbers of records of the remotes: up to MaxPages full pages and a rest
StreamSizes == {k * per_page + r : k \in 0..MaxPages, r \in StreamRests}

\* the number of pages that hold a record
PagesOf(n) == (n + per_page - 1) \div per_page

\* the remote of n records, pull requests where pr says
StreamRemote(n, pr) ==
    [sizes |-> [p \in 1..PagesOf(n) |->
                    IF p * per_page <= n THEN per_page ELSE n % per_page],
     prPages |-> pr.prPages, prPat |-> pr.prPat, failPage |-> 0,
     failKind |-> "none", failText |-> ""]

InitStream ==
    /\ remote \in {StreamRemote(n, pr) :
                      n \in StreamSizes,
                      pr \in {NoPullRequests} \cup [prPages : PrPages, prPat : PrPatterns]}
    /\ f = FetchStart
    /\ StoreAtRest
    /\ EngineAtRest
    /\ WorkersAtRest

SpecStream == InitStream /\ [][NextFetch]_vars /\ WF_vars(FetchPage)

\* the number of records the remote holds
RemoteTotal == TotalSize(remote, Len(remote.sizes))

\* C21: against a remote of N records (issues and pull requests) that answers
\* every request, fetch_all_issues returns, with success, after exactly
\* floor(N / per_page) + 1 requests and never makes more; when N is a positive
\* multiple of per_page the last request is the one answered by an empty page.
C21_TerminatesAfterQuotientPlusOne ==
    /\ [](Len(f.requests) <= (RemoteTotal \div per_page) + 1)
    /\ <>(/\ f.done
          /\ f.result.success
          /\ Len(f.requests) = (RemoteTotal \div per_page) + 1
          /\ (RemoteTotal > 0 /\ RemoteTotal % per_page = 0) =>
                PageSize(remote, f.requests[Len(f.requests)]) = 0)

\* 200 records: two full pages and a third request answered by an empty page
C21_Witness ==
    /\ f.done
    /\ f.result.success
    /\ RemoteTotal = 2 * per_page
    /\ f.requests = <<1, 2, 3>>
    /\ PageSize(remote, 3) = 0

(***************************************************************************)
(* The claims on a cache_issues that fails, under Spec.                    *)
(***************************************************************************)
\* the /scan answered in the next state has called cache_issues
CalledCacheIssues == resp'.op = "scan" /\ resp'.calls = <<"fetch_all_issues", "cache_issues">>

\* C22: a cache_issues that meets an error, at the DELETE, at any INSERT (an
\* identifier twice in the issues passed, too) or at the commit, returns False
\* (the /scan answers 500), and a cache_issues that returns False, or is left by
\* an exception, leaves the table exactly as it was: the rows of its key and those
\* of every other key.
C22_FailedReplaceLeavesStore ==
    [][CalledCacheIssues =>
        /\ (resp'.env.cacheFault # 0 \/ ~DistinctIds(resp'.issues)) => resp'.status = 500
        /\ resp'.status = 500 => db' = db /\ replaced' = replaced
        /\ resp'.status = 200 =>
                RowsOf(db', resp'.repo)
                    = {Row(resp'.repo, resp'.issues[i]) : i \in 1..Len(resp'.issues)}]_vars

\* the second issue passed had the identifier of the first; the key keeps the
\* row it had, and so does the other key
C22_Witness ==
    /\ ValidScan
    /\ resp.status = 500
    /\ resp.env.cacheFault = 0
    /\ Len(resp.issues) = 2
    /\ ~DistinctIds(resp.issues)
    /\ \E r \in RowsOf(db, resp.repo) : r.id # resp.issues[1].id
    /\ \E r \in db : r.repo # resp.repo

\* no identifier is in two rows of the table
UniqueIds(table) == \A r1, r2 \in table : r1.id = r2.id => r1 = r2

\* an issue passed has the identifier of a row stored for another key
StoredUnderOtherKey(table, repo, issues) ==
    \E i \in 1..Len(issues) :
        /\ ~IsString(issues[i])
        /\ \E r \in table : r.id = issues[i].id /\ r.repo # repo

\* C23: the table never holds an identifier twice, whatever the keys; a
\* cache_issues for a key with an issue whose identifier is stored for another
\* key returns False and leaves the whole table as it was.
C23_IdentifierIsTheKey ==
    [][/\ UniqueIds(db')
       /\ (CalledCacheIssues /\ StoredUnderOtherKey(db, resp'.repo, resp'.issues)) =>
            resp'.status = 500 /\ db' = db /\ replaced' = replaced]_vars

\* two issues with distinct identifiers, no other error, a key with no row: the
\* scan failed on the identifier stored for the other key
C23_Witness ==
    /\ ValidScan
    /\ resp.status = 500
    /\ resp.error = "Failed to cache issues"
    /\ resp.env.cacheFault = 0
    /\ Len(resp.issues) = 2
    /\ DistinctIds(resp.issues)
    /\ StoredUnderOtherKey(db, resp.repo, resp.issues)
    /\ RowsOf(db, resp.repo) = {}
====
